---- MODULE Spec2Model ----
(***************************************************************************)
(* Particle-Life simulation of src/src/App.tsx: the seeded generator, the  *)
(* rule matrix and its persistence, the uniform-grid neighbour index, the  *)
(* non-reciprocal force pass, the integrator with its boundary policy, and *)
(* the React component that owns the simulation (state updates, effects,   *)
(* the animation-frame loop and the editor events).                        *)
(*                                                                         *)
(* Numbers.  The program computes in IEEE doubles and stores particles in  *)
(* Float32Array.  Here every real quantity is a fixed-point integer in     *)
(* units of 1/Q (Q units are 1.0): positions, velocities, forces, matrix   *)
(* coefficients, radii, dt, drag.  Products are rescaled by Rnd (round to  *)
(* nearest, symmetric in sign, as IEEE rounding is).  32-bit integers of   *)
(* the generator are pairs <<hi, lo>> of 16-bit halves, exact modulo 2^32. *)
(***************************************************************************)
EXTENDS Integers, Sequences, FiniteSets, TLC

VARIABLES
    spec,       \* App: the Spec value of the last committed render (useState)
    seed,       \* App: the seed of the last committed render (useState)
    paused,     \* App: paused of the last committed render (useState)
    queue,      \* App: state updates scheduled but not yet rendered
    ls,         \* localStorage item "pl_rules_v1"
    sim,        \* simRef.current: the simulation state (type Sim)
    simB,       \* a second, independent simulation state (two-run comparisons)
    raf,        \* useAnimationFrame: the pending requests and ref.current; setFps scheduled
    pairLog,    \* the pairs <<i, j>> whose force the last step() evaluated, in order
    visited,    \* the indices j forEachNeighbor(sim, i, fn) passed to fn in the last step, per i
    loaded,     \* the value the last loadMatrixFromLS call returned
    probe,      \* accelMag evaluated apart: two argument lists and their results
    events,     \* number of user events so far (bounds the exploration)
    op          \* name of the last operation performed

vars == <<spec, seed, paused, queue, ls, sim, simB, raf, pairLog, visited,
          loaded, probe, events, op>>

\* Fixed-point resolution: Q units are 1.0.
Q == 1000

----------------------------------------------------------------------------
(* Arithmetic helpers *)

Abs(a) == IF a < 0 THEN -a ELSE a
Max(a, b) == IF a >= b THEN a ELSE b
Min(a, b) == IF a <= b THEN a ELSE b

\* the one value of a singleton set
The(S) == CHOOSE e \in S : TRUE

\* no evaluation of accelMag apart from step has been asked for
NoProbe == [kind |-> "none"]

\* no component is mounted: no animation frame is requested
NoLoop == [pending |-> <<>>, ref |-> 0, fps |-> FALSE]

\* a / b rounded to the nearest integer, halves away from zero (b > 0).
Rnd(a, b) == IF a >= 0 THEN (2 * a + b) \div (2 * b)
                         ELSE -((2 * (-a) + b) \div (2 * b))

\* Math.ceil(a / b) for b > 0.
Ceil(a, b) == -((-a) \div b)

\* Math.sqrt, rounded down to the fixed-point grid.
RECURSIVE SqrtIter(_, _, _)
SqrtIter(n, lo, hi) ==
    IF lo >= hi THEN lo
    ELSE LET mid == (lo + hi + 1) \div 2
         IN IF mid * mid <= n THEN SqrtIter(n, mid, hi)
                              ELSE SqrtIter(n, lo, mid - 1)
Sqrt(n) == SqrtIter(n, 0, 40000)

\* function clamp(v, lo, hi)
clamp(v, lo, hi) == Max(lo, Min(hi, v))

----------------------------------------------------------------------------
(* 32-bit words as <<hi, lo>>, each half in 0..65535 *)

W16 == 65536

RECURSIVE Xor16(_, _)
Xor16(a, b) ==
    IF a = 0 THEN b
    ELSE IF b = 0 THEN a
    ELSE 2 * Xor16(a \div 2, b \div 2) + ((a + b) % 2)

RECURSIVE Or16(_, _)
Or16(a, b) ==
    IF a = 0 THEN b
    ELSE IF b = 0 THEN a
    ELSE 2 * Or16(a \div 2, b \div 2) + (IF (a % 2) + (b % 2) > 0 THEN 1 ELSE 0)

RECURSIVE Pow2(_)
Pow2(n) == IF n = 0 THEN 1 ELSE 2 * Pow2(n - 1)

Xor32(a, b) == <<Xor16(a[1], b[1]), Xor16(a[2], b[2])>>
\* c | a for a constant c below 2^16
OrLow32(c, a) == <<a[1], Or16(c, a[2])>>
\* a >>> n for 0 < n < 16
Shr32(a, n) ==
    <<a[1] \div Pow2(n),
      (a[2] \div Pow2(n)) + (a[1] % Pow2(n)) * Pow2(16 - n)>>
Add32(a, b) ==
    LET lo == a[2] + b[2]
    IN <<(a[1] + b[1] + (lo \div W16)) % W16, lo % W16>>
\* (x * y) mod 2^16 for 16-bit x, y, without leaving 31 bits
MulMod16(x, y) ==
    (x * (y % 256) + ((x * (y \div 256)) % 256) * 256) % W16
\* Math.imul(a, b): the low 32 bits of the product
Imul32(a, b) ==
    LET p0 == a[2] * (b[2] % 256)
        p1 == a[2] * (b[2] \div 256)
        low == p0 + (p1 % 256) * 256
        hi0 == (low \div W16) + (p1 \div 256)
        cross == MulMod16(a[1], b[2]) + MulMod16(a[2], b[1])
    IN <<(hi0 + cross) % W16, low % W16>>

\* seed >>> 0 for a non-negative seed below 2^31
ToU32(s) == <<(s \div W16) % W16, s % W16>>

\* 0x6d2b79f5
MulberryInc == <<27947, 31221>>

RECURSIVE MulberryT(_, _)
\* the closure variable t after k calls of the generator
MulberryT(s, k) ==
    IF k = 0 THEN ToU32(s) ELSE Add32(MulberryT(s, k - 1), MulberryInc)

\* function mulberry32(seed): the 32-bit numerator of the k-th value returned
\* (k = 1 is the first call); the value itself is this word / 4294967296.
mulberry32(s, k) ==
    LET t == MulberryT(s, k)
        r1 == Imul32(Xor32(t, Shr32(t, 15)), OrLow32(1, t))
        r2 == Xor32(r1, Add32(r1, Imul32(Xor32(r1, Shr32(r1, 7)), OrLow32(61, r1))))
    IN Xor32(r2, Shr32(r2, 14))

\* function randRange(rng, a, b) = a + (b - a) * rng(), on the k-th draw.
\* The low half of the word is below the fixed-point resolution.
randRange(s, k, a, b) == a + ((b - a) * mulberry32(s, k)[1]) \div W16

\* Math.floor(rng() * K) on the k-th draw, exact.
randType(s, k, K) ==
    LET u == mulberry32(s, k)
    IN (u[1] * K + ((u[2] * K) \div W16)) \div W16

----------------------------------------------------------------------------
(* World helpers *)

\* const WORLD_SIZE = 2.0, in fixed-point units
WORLD_SIZE == 2 * Q

\* function wrapCoord(x)
wrapCoord(x) ==
    IF x < -Q THEN x + WORLD_SIZE
    ELSE IF x > Q THEN x - WORLD_SIZE
    ELSE x

\* function torusDelta(a, b)
torusDelta(a, b) ==
    LET d == b - a
    IN IF d > Q THEN d - WORLD_SIZE
       ELSE IF d < -Q THEN d + WORLD_SIZE
       ELSE d

----------------------------------------------------------------------------
(* Particle Life accelerator *)

\* x * y / d rounded to the nearest integer, for 0 <= x, 0 <= y, 0 < d, as
\* <<quotient, remainder>> of the exact product, taken bit by bit so that
\* no intermediate value exceeds the machine integer
RECURSIVE MulDivBits(_, _, _)
MulDivBits(x, y, d) ==
    IF y = 0 THEN <<0, 0>>
    ELSE LET h == MulDivBits(x, y \div 2, d)
             t == 2 * h[2] + (y % 2) * x
         IN <<2 * h[1] + (t \div d), t % d>>

\* x * y / d rounded as Rnd rounds; small products are taken directly
MulDiv(x, y, d) ==
    IF Abs(x) < 32768 /\ Abs(y) < 32768 THEN Rnd(x * y, d)
    ELSE LET h == MulDivBits(Abs(x), Abs(y), d)
             m == h[1] + (IF 2 * h[2] >= d THEN 1 ELSE 0)
         IN IF (x < 0) = (y < 0) THEN m ELSE -m

\* the guard 1e-6 of accelMag on a grid of q units per 1.0; below the grid's
\* resolution it is one unit
EpsAt(q) == Max(1, q \div 1000000)

\* accelMag with a bell that falls from a at r = rMin to 0 at r = 1
accelMagAtLinear(q, a, r, rMin) ==
    IF r <= 0 THEN 0
    ELSE IF r < rMin THEN MulDiv(r, q, rMin) - q
    ELSE LET denom == Max(EpsAt(q), q - rMin)
             ratio == MulDiv(Abs(r - rMin), q, denom)
         IN MulDiv(a, q - ratio, q)

\* accelMag with a * (r / rMin - 1) in the hard-core branch
accelMagAtScaled(q, a, r, rMin) ==
    IF r <= 0 THEN 0
    ELSE IF r < rMin THEN MulDiv(a, MulDiv(r, q, rMin) - q, q)
    ELSE LET denom == Max(EpsAt(q), q - rMin)
             ratio == MulDiv(Abs(q + rMin - 2 * r), q, denom)
         IN MulDiv(a, q - ratio, q)

\* function accelMag(a, r, rMin) on a grid of q units per 1.0
accelMagAt(q, a, r, rMin) ==
    IF r <= 0 THEN 0
    ELSE IF r < rMin THEN MulDiv(r, q, rMin) - q
    ELSE LET denom == Max(EpsAt(q), q - rMin)
             ratio == MulDiv(Abs(q + rMin - 2 * r), q, denom)
         IN MulDiv(a, q - ratio, q)

\* function accelMag(a, r, rMin), on the grid of the simulation
accelMag(a, r, rMin) == accelMagAt(Q, a, r, rMin)

----------------------------------------------------------------------------
(* Rule matrices: a matrix is a sequence of rows, A[i][j] of the program   *)
(* is A[i + 1][j + 1] here.                                                *)

\* the lookup with its indices exchanged
AtTransposed(A, i, j) == A[j + 1][i + 1]

\* A[i][j]
At(A, i, j) == A[i + 1][j + 1]

\* A is an n x n array of arrays
IsSquare(A, n) == Len(A) = n /\ \A i \in 1..Len(A) : Len(A[i]) = n

\* function genRandomMatrix(K, rng) with rng = mulberry32(s): the draws are
\* made row by row, one per entry.
genRandomMatrix(K, s) ==
    [i \in 1..K |-> [j \in 1..K |->
        LET k == (i - 1) * K + j
        IN IF i = j THEN randRange(s, k, Q \div 2, (9 * Q) \div 10)
                    ELSE randRange(s, k, -Q, Q)]]

\* function genRingPreset(K, self = 0.9, next = 0.6, others = 0.0); A[i][(i+1)%K]
\* is written after A[i][i].
genRingPresetOf(K, self, nxt, others) ==
    [i \in 1..K |-> [j \in 1..K |->
        IF j - 1 = (i % K) THEN nxt
        ELSE IF j = i THEN self
        ELSE others]]
genRingPreset(K) == genRingPresetOf(K, (9 * Q) \div 10, (6 * Q) \div 10, 0)

\* Array.from({length: K}, () => Array(K).fill(0)), the editor's Clear
zeroMatrix(K) == [i \in 1..K |-> [j \in 1..K |-> 0]]

----------------------------------------------------------------------------
(* localStorage item LS_KEY.  A stored item is                              *)
(*   tag "none"    : no item (getItem returns null);                        *)
(*   tag "garbage" : a string JSON.parse rejects;                           *)
(*   tag "null"    : JSON text of a falsy value;                            *)
(*   tag "rec"     : JSON text of an object with fields K and A, where K is *)
(*                   a number (-1 stands for a missing or non-numeric K),   *)
(*                   and A and each of its rows is an array or is not.      *)

NotArr == [isArr |-> FALSE, rows |-> <<>>]
LSNone == [tag |-> "none", K |-> 0, A |-> NotArr]
LSGarbage == [tag |-> "garbage", K |-> 0, A |-> NotArr]
LSNull == [tag |-> "null", K |-> 0, A |-> NotArr]
JsonRow(cells) == [isArr |-> TRUE, cells |-> cells]
JsonMatrix(A) == [isArr |-> TRUE, rows |-> [i \in 1..Len(A) |-> JsonRow(A[i])]]

\* function saveMatrixToLS(A, K): the item written by JSON.stringify({K, A})
saveMatrixToLS(A, K) == [tag |-> "rec", K |-> K, A |-> JsonMatrix(A)]

\* a matrix or null
Null == [isNull |-> TRUE, A |-> <<>>]
Some(A) == [isNull |-> FALSE, A |-> A]

\* loadMatrixFromLS without the test of the rows' lengths
loadMatrixFromRowsUnchecked(item, K) ==
    IF item.tag # "rec" \/ item.K # K THEN Null
    ELSE IF \/ ~item.A.isArr
            \/ Len(item.A.rows) # K
            \/ \E i \in 1..Len(item.A.rows) : ~item.A.rows[i].isArr
         THEN Null
    ELSE Some([i \in 1..Len(item.A.rows) |-> item.A.rows[i].cells])

\* function loadMatrixFromLS(K) applied to the stored item
loadMatrixFrom(item, K) ==
    IF item.tag = "none" THEN Null                       \* if (!raw) return null
    ELSE IF item.tag = "garbage" THEN Null               \* JSON.parse throws: catch
    ELSE IF item.tag = "null" \/ item.K # K THEN Null    \* if (!obj || obj.K !== K)
    ELSE IF \/ ~item.A.isArr
            \/ Len(item.A.rows) # K
            \/ \E i \in 1..Len(item.A.rows) :
                 \/ ~item.A.rows[i].isArr
                 \/ Len(item.A.rows[i].cells) # K
         THEN Null
    ELSE Some([i \in 1..Len(item.A.rows) |-> item.A.rows[i].cells])

\* function loadMatrixFromLS(K)
loadMatrixFromLS(K) == loadMatrixFrom(ls, K)

----------------------------------------------------------------------------
(* Spec: the configuration record (type Spec).  seed is kept apart (the    *)
(* component always passes it as seedOverride); pixelScale and overlays    *)
(* only concern drawing.                                                   *)

\* Number of particles of the default configuration (SPEC.N is 500); the
\* model runs the same code on a small population.
NParticles == 2

\* const SPEC
SPEC ==
    [N |-> NParticles, K |-> 5,
     A |-> << <<(8 * Q) \div 10, (6 * Q) \div 10>>,
              <<(6 * Q) \div 10, (8 * Q) \div 10>> >>,
     rMin |-> (12 * Q) \div 100, R |-> (75 * Q) \div 100,
     dt |-> (3 * Q) \div 100, drag |-> Q, vMax |-> (15 * Q) \div 10,
     wrap |-> FALSE, cellSize |-> Q \div 10,
     genMatrix |-> TRUE,
     mutualOnly |-> FALSE, settleEnabled |-> TRUE,
     settleK |-> (2 * Q) \div 10, settleR |-> (2 * Q) \div 10]

\* SPEC.seed
SPEC_SEED == 1337

----------------------------------------------------------------------------
(* Simulation state (type Sim).  Typed arrays are functions on 0..n-1.     *)

\* a new typed array of length n (zero-filled)
Zeros(n) == [i \in 0..(n - 1) |-> 0]
ArrLen(a) == Cardinality(DOMAIN a)

\* Math.max(1, Math.ceil(WORLD_SIZE / spec.cellSize))
GridDimOf(cellSize) == Max(1, Ceil(WORLD_SIZE, cellSize))

\* The arrays initSim allocates and fills: five draws per particle, in the
\* order x, y, vx, vy, type, the first of them draw number k0 + 1; new typed
\* arrays are zero-filled.  The closure rng is not used after construction
\* and is not kept.
NewSim(sp, sd, A, k0) ==
    LET gridDim == GridDimOf(sp.cellSize)
    IN [spec |-> sp,
        K |-> sp.K,
        x |-> [i \in 0..(sp.N - 1) |-> randRange(sd, k0 + 5 * i + 1, -Q, Q)],
        y |-> [i \in 0..(sp.N - 1) |-> randRange(sd, k0 + 5 * i + 2, -Q, Q)],
        vx |-> [i \in 0..(sp.N - 1) |->
                  randRange(sd, k0 + 5 * i + 3, -(Q \div 20), Q \div 20)],
        vy |-> [i \in 0..(sp.N - 1) |->
                  randRange(sd, k0 + 5 * i + 4, -(Q \div 20), Q \div 20)],
        type |-> [i \in 0..(sp.N - 1) |-> randType(sd, k0 + 5 * i + 5, sp.K)],
        fx |-> Zeros(sp.N),
        fy |-> Zeros(sp.N),
        gridDim |-> gridDim,
        cellHead |-> Zeros(gridDim * gridDim),
        next |-> Zeros(sp.N),
        frame |-> 0,
        lastMaxSpeed |-> 0,
        A |-> A]

\* initSim as it would be if a missing stored matrix were drawn from the
\* simulation's own generator before the particles are placed
initSimDrawsMatrix(sp, sd) ==
    LET fromLS == loadMatrixFromLS(sp.K)
    IN IF ~fromLS.isNull THEN NewSim(sp, sd, fromLS.A, 0)
       ELSE NewSim(sp, sd, genRandomMatrix(sp.K, sd), sp.K * sp.K)

\* function initSim(spec, seedOverride) when the stored item is item; the
\* matrix is chosen localStorage -> preset (ring) -> spec.A
initSimFrom(item, sp, sd) ==
    LET fromLS == loadMatrixFrom(item, sp.K)
        A == IF ~fromLS.isNull THEN fromLS.A
             ELSE IF sp.genMatrix THEN genRingPreset(sp.K)
             ELSE sp.A
    IN NewSim(sp, sd, A, 0)

\* function initSim(spec, seedOverride)
initSim(sp, sd) == initSimFrom(ls, sp, sd)

----------------------------------------------------------------------------
(* Neighbors *)

\* clamp(Math.floor((x + 1) * 0.5 * gridDim), 0, gridDim - 1)
CellCoord(x, gridDim) == clamp(((x + Q) * gridDim) \div (2 * Q), 0, gridDim - 1)

\* function cellIndexOf(x, y, gridDim)
cellIndexOf(x, y, gridDim) == CellCoord(x, gridDim) + CellCoord(y, gridDim) * gridDim

\* Safe N of rebuildGrid
GridN(s) == Min(s.spec.N, Min(ArrLen(s.x), ArrLen(s.next)))

RECURSIVE RebuildFromHeadFirst(_, _, _, _)
\* the loop of rebuildGrid with its two assignments in the other order: the
\* head is overwritten before it is copied into next[i]
RebuildFromHeadFirst(s, i, head, nxt) ==
    IF i >= GridN(s) THEN [cellHead |-> head, next |-> nxt]
    ELSE LET idx == cellIndexOf(s.x[i], s.y[i], s.gridDim)
         IN RebuildFromHeadFirst(s, i + 1,
                                 [head EXCEPT ![idx] = i],
                                 [nxt EXCEPT ![i] = i])

RECURSIVE RebuildFrom(_, _, _, _)
\* the loop of rebuildGrid from particle i on
RebuildFrom(s, i, head, nxt) ==
    IF i >= GridN(s) THEN [cellHead |-> head, next |-> nxt]
    ELSE LET idx == cellIndexOf(s.x[i], s.y[i], s.gridDim)
         IN RebuildFrom(s, i + 1,
                        [head EXCEPT ![idx] = i],
                        [nxt EXCEPT ![i] = head[idx]])

\* function rebuildGrid(sim): the grid buffers afterwards
rebuildGrid(s) ==
    RebuildFrom(s, 0, [c \in DOMAIN s.cellHead |-> -1], s.next)

\* Math.max(1, Math.ceil(sim.spec.R / sim.spec.cellSize))
ReachOf(sp) == Max(1, Ceil(sp.R, sp.cellSize))

RECURSIVE WalkCell(_, _, _, _)
\* the while loop of forEachNeighbor over one cell's list, from j on; a list
\* that does not end within n links never ends in the program.
WalkCell(s, i, j, n) ==
    IF j = -1 \/ n = 0 THEN <<>>
    ELSE (IF j # i THEN <<j>> ELSE <<>>) \o WalkCell(s, i, s.next[j], n - 1)

\* One axis of the cell the loops of forEachNeighbor reach at offset d from
\* cell coordinate c0: wrapped modulo gridDim, or -1 when out of range.
AxisCell(s, c0, d) ==
    LET gdim == s.gridDim
        n0 == c0 + d
    IN IF s.spec.wrap THEN ((n0 % gdim) + gdim) % gdim
       ELSE IF n0 < 0 \/ n0 >= gdim THEN -1
       ELSE n0

\* the cell reached at offset (dx, dy) from (cx, cy), or -1 when it is skipped
BlockCell(s, cx, cy, dx, dy) ==
    IF AxisCell(s, cx, dx) = -1 \/ AxisCell(s, cy, dy) = -1 THEN -1
    ELSE AxisCell(s, cx, dx) + AxisCell(s, cy, dy) * s.gridDim

\* The two for loops of forEachNeighbor, flattened: offset number m runs
\* dy from -reach to reach and, within it, dx from -reach to reach.
BlockWidth(s) == 2 * ReachOf(s.spec) + 1
OffsetCell(s, cx, cy, m) ==
    BlockCell(s, cx, cy, (m % BlockWidth(s)) - ReachOf(s.spec),
                         (m \div BlockWidth(s)) - ReachOf(s.spec))

\* cells whose list is not empty
OccupiedCells(s) == {c \in DOMAIN s.cellHead : s.cellHead[c] # -1}

\* The offset numbers whose cell is visited and holds a list: the offsets
\* (dx, dy) that reach an occupied cell c are those whose dx reaches its
\* column and whose dy reaches its row.
Occupied(s, cx, cy) ==
    LET reach == ReachOf(s.spec)
        w == 2 * reach + 1
        gdim == s.gridDim
    IN UNION { { (dy + reach) * w + (dx + reach) :
                   dx \in {d \in (-reach)..reach : AxisCell(s, cx, d) = c % gdim},
                   dy \in {d \in (-reach)..reach : AxisCell(s, cy, d) = c \div gdim} } :
               c \in OccupiedCells(s) }

RECURSIVE BlockFrom(_, _, _, _, _)
\* the calls of fn made at the offsets occ, in increasing order; offsets
\* with an empty or skipped cell make none
BlockFrom(s, i, occ, cx, cy) ==
    IF occ = {} THEN <<>>
    ELSE LET m == CHOOSE m0 \in occ : \A m1 \in occ : m0 <= m1
         IN WalkCell(s, i, s.cellHead[OffsetCell(s, cx, cy, m)], ArrLen(s.next) + 1)
            \o BlockFrom(s, i, occ \ {m}, cx, cy)

\* function forEachNeighbor(sim, i, fn): the arguments of fn(j), in call order
forEachNeighbor(s, i) ==
    LET cx == CellCoord(s.x[i], s.gridDim)
        cy == CellCoord(s.y[i], s.gridDim)
    IN BlockFrom(s, i, Occupied(s, cx, cy), cx, cy)

----------------------------------------------------------------------------
(* Physics step *)

\* function smoothstep01(t)
smoothstep01(t) ==
    LET x == clamp(t, 0, Q)
    IN Rnd(Rnd(x * x, Q) * (3 * Q - 2 * x), Q)

\* Safe N of step
StepN(s) == Min(s.spec.N, Min(ArrLen(s.x), Min(ArrLen(s.vx), ArrLen(s.type))))

\* sim.A[ti][tj] and sim.A[tj][ti] are both numbers.  A missing row makes
\* the lookup throw a TypeError; a missing entry of an existing row is
\* undefined and poisons the arithmetic.  Either way the pair faults.
Defined(A, ti, tj) ==
    /\ ti + 1 \in 1..Len(A) /\ tj + 1 \in 1..Len(A[ti + 1])
    /\ tj + 1 \in 1..Len(A) /\ ti + 1 \in 1..Len(A[tj + 1])

\* the gate as it would be if one positive coefficient were enough
mutualPosEither(aij, aji) == aij > 0 \/ aji > 0

\* const mutualPos = aij > 0 && aji > 0
mutualPos(aij, aji) == aij > 0 /\ aji > 0

\* The callback step passes to forEachNeighbor, applied to neighbour j of i.
\* acc holds the accumulators fx, fy, the log of evaluated pairs and the
\* fault flag.  The test r > R is made on the squares, where it is exact.
PairForce(s, i, j, acc) ==
    LET sp == s.spec
        dx == IF sp.wrap THEN torusDelta(s.x[i], s.x[j]) ELSE s.x[j] - s.x[i]
        dy == IF sp.wrap THEN torusDelta(s.y[i], s.y[j]) ELSE s.y[j] - s.y[i]
        r2 == dx * dx + dy * dy
        r == Sqrt(r2)
        ux == Rnd(dx * Q, r)
        uy == Rnd(dy * Q, r)
        ti == s.type[i]
        tj == s.type[j]
        a0ij == At(s.A, ti, tj)
        a0ji == At(s.A, tj, ti)
        gated == sp.mutualOnly /\ ~mutualPos(a0ij, a0ji)
        aij == IF gated THEN 0 ELSE a0ij
        aji == IF gated THEN 0 ELSE a0ji
        fij == accelMag(aij, r, sp.rMin)
        fji == accelMag(aji, r, sp.rMin)
        fx1 == [acc.fx EXCEPT ![i] = @ + Rnd(fij * ux, Q)]
        fy1 == [acc.fy EXCEPT ![i] = @ + Rnd(fij * uy, Q)]
        fx2 == [fx1 EXCEPT ![j] = @ - Rnd(fji * ux, Q)]
        fy2 == [fy1 EXCEPT ![j] = @ - Rnd(fji * uy, Q)]
        vRelRad == Rnd((s.vx[i] - s.vx[j]) * ux + (s.vy[i] - s.vy[j]) * uy, Q)
        cCrit == Rnd(2 * Q * Q, sp.dt)
        c == Min(Max(sp.settleK, 0), cCrit)
        t == Rnd((r - sp.rMin) * Q, Max(1, sp.settleR - sp.rMin))
        w == Q - smoothstep01(t)
        fDamp == Rnd(Rnd(-(c * vRelRad), Q) * w, Q)
        dfx == Rnd(fDamp * ux, Q)
        dfy == Rnd(fDamp * uy, Q)
        settle == /\ sp.settleEnabled /\ mutualPos(aij, aji)
                  /\ r > sp.rMin /\ r < sp.settleR /\ w > 0
        fx3 == IF settle THEN [fx2 EXCEPT ![i] = @ + dfx, ![j] = @ - dfx] ELSE fx2
        fy3 == IF settle THEN [fy2 EXCEPT ![i] = @ + dfy, ![j] = @ - dfy] ELSE fy2
    IN IF acc.fault THEN acc                       \* the exception left step
       ELSE IF j <= i THEN acc                     \* if (j <= i) return
       ELSE IF r2 = 0 THEN acc                     \* if (r2 === 0) return
       ELSE IF r2 > sp.R * sp.R THEN acc           \* if (r > R) return
       ELSE IF ~Defined(s.A, ti, tj) THEN [acc EXCEPT !.fault = TRUE]
       ELSE [acc EXCEPT !.fx = fx3, !.fy = fy3, !.log = Append(@, <<i, j>>)]

RECURSIVE NeighborPass(_, _, _, _)
\* forEachNeighbor(sim, i, callback) from the k-th neighbour on
NeighborPass(s, i, js, acc) ==
    IF js = <<>> THEN acc
    ELSE The({ NeighborPass(s, i, Tail(js), a1) :
               a1 \in {PairForce(s, i, Head(js), acc)} })

\* the accumulation loop of step for particle i: its neighbours are noted
\* in acc.visited as forEachNeighbor hands them over
ParticlePass(s, i, js, acc) ==
    NeighborPass(s, i, js, [acc EXCEPT !.visited = Append(@, js)])

RECURSIVE ForcePass(_, _, _)
\* the accumulation loop of step from particle i on
ForcePass(s, i, acc) ==
    IF i >= StepN(s) THEN acc
    ELSE The({ ForcePass(s, i + 1, a1) :
               a1 \in {ParticlePass(s, i, forEachNeighbor(s, i), acc)} })

\* the speed clamp as it would be if each component were clamped by itself
speedClampPerAxis(vx0, vy0, vMax) == <<clamp(vx0, -vMax, vMax), clamp(vy0, -vMax, vMax)>>

\* if (v2 > vMax2) { s = vMax / sqrt(v2); vx *= s; vy *= s }: the pair vx, vy
\* stored.  s is a double: sqrt(v2) is taken well below the grid (one Newton
\* step from the integer root r0, (v2 + r0 * r0) / (2 * r0)), and each
\* product is rounded once, when it is stored.
speedClamp(vx0, vy0, vMax) ==
    LET v2 == vx0 * vx0 + vy0 * vy0
        r0 == Sqrt(v2)
    IN IF v2 > vMax * vMax
       THEN <<MulDiv(vx0 * vMax, 2 * r0, v2 + r0 * r0),
              MulDiv(vy0 * vMax, 2 * r0, v2 + r0 * r0)>>
       ELSE <<vx0, vy0>>

\* One particle of the integration loop of step: the new vx, vy, x, y and
\* the speed after the clamp; also the velocity after the clamp (cvx, cvy)
\* and the position nx, ny before the boundary policy (tx, ty).
Integrate(s, i) ==
    LET sp == s.spec
        dt == sp.dt
        dragFactor == Max(0, Q - Rnd(sp.drag * dt, Q))
        vx0 == Rnd((s.vx[i] + Rnd(dt * s.fx[i], Q)) * dragFactor, Q)
        vy0 == Rnd((s.vy[i] + Rnd(dt * s.fy[i], Q)) * dragFactor, Q)
        vc == speedClamp(vx0, vy0, sp.vMax)
        vx1 == vc[1]
        vy1 == vc[2]
        speed == Sqrt(vx1 * vx1 + vy1 * vy1)
        nx0 == s.x[i] + Rnd(dt * vx1, Q)
        ny0 == s.y[i] + Rnd(dt * vy1, Q)
        \* reflecting box: the test on the low side comes first
        nxLo == IF nx0 < -Q THEN -Q + (-Q - nx0) ELSE nx0
        vxLo == IF nx0 < -Q THEN Abs(vx1) ELSE vx1
        nxR == IF nxLo > Q THEN Q - (nxLo - Q) ELSE nxLo
        vxR == IF nxLo > Q THEN -Abs(vxLo) ELSE vxLo
        nyLo == IF ny0 < -Q THEN -Q + (-Q - ny0) ELSE ny0
        vyLo == IF ny0 < -Q THEN Abs(vy1) ELSE vy1
        nyR == IF nyLo > Q THEN Q - (nyLo - Q) ELSE nyLo
        vyR == IF nyLo > Q THEN -Abs(vyLo) ELSE vyLo
    IN IF sp.wrap
       THEN [vx |-> vx1, vy |-> vy1, x |-> wrapCoord(nx0), y |-> wrapCoord(ny0),
             speed |-> speed, cvx |-> vx1, cvy |-> vy1, tx |-> nx0, ty |-> ny0]
       ELSE [vx |-> vxR, vy |-> vyR, x |-> nxR, y |-> nyR, speed |-> speed,
             cvx |-> vx1, cvy |-> vy1, tx |-> nx0, ty |-> ny0]

RECURSIVE MaxSpeedFrom(_, _, _)
\* let maxSpeed = 0; if (speed > maxSpeed) maxSpeed = speed
MaxSpeedFrom(p, i, n) ==
    IF i >= n THEN 0 ELSE Max(p[i].speed, MaxSpeedFrom(p, i + 1, n))

\* rebuildGrid(sim); sim.fx.fill(0, 0, N); sim.fy.fill(0, 0, N)
Prepared(s) ==
    LET N == StepN(s)
        g == rebuildGrid(s)
    IN [s EXCEPT !.cellHead = g.cellHead, !.next = g.next,
                 !.fx = [i \in DOMAIN s.fx |-> IF i < N THEN 0 ELSE s.fx[i]],
                 !.fy = [i \in DOMAIN s.fy |-> IF i < N THEN 0 ELSE s.fy[i]]]

\* the force pass as it would be if the particles were moved by dt * v
\* before the forces are accumulated
AccumulateAfterMove(s1) ==
    ForcePass([s1 EXCEPT
                 !.x = [i \in DOMAIN s1.x |-> s1.x[i] + Rnd(s1.spec.dt * s1.vx[i], Q)],
                 !.y = [i \in DOMAIN s1.y |-> s1.y[i] + Rnd(s1.spec.dt * s1.vy[i], Q)]],
              0, [fx |-> s1.fx, fy |-> s1.fy, log |-> <<>>,
                  visited |-> <<>>, fault |-> FALSE])

\* the force pass on a prepared simulation
Accumulate(s1) ==
    ForcePass(s1, 0, [fx |-> s1.fx, fy |-> s1.fy, log |-> <<>>,
                      visited |-> <<>>, fault |-> FALSE])

\* function step(sim), as far as the force pass: the grid is rebuilt, the
\* accumulators are reset on 0..N-1, the forces are accumulated.  log is the
\* sequence of pairs evaluated, visited[i + 1] the neighbours handed over for i.
StepForces(s) ==
    The({ The({ [sim |-> [s1 EXCEPT !.fx = acc.fx, !.fy = acc.fy],
                 log |-> acc.log, visited |-> acc.visited, fault |-> acc.fault] :
                acc \in {Accumulate(s1)} }) :
          s1 \in {Prepared(s)} })

\* the integration loop of step and its end
Integrated(s2) ==
    LET N == StepN(s2)
        p == [i \in 0..(N - 1) |-> Integrate(s2, i)]
    IN [s2 EXCEPT
          !.vx = [i \in DOMAIN s2.vx |-> IF i < N THEN p[i].vx ELSE s2.vx[i]],
          !.vy = [i \in DOMAIN s2.vy |-> IF i < N THEN p[i].vy ELSE s2.vy[i]],
          !.x = [i \in DOMAIN s2.x |-> IF i < N THEN p[i].x ELSE s2.x[i]],
          !.y = [i \in DOMAIN s2.y |-> IF i < N THEN p[i].y ELSE s2.y[i]],
          !.lastMaxSpeed = MaxSpeedFrom(p, 0, N),
          !.frame = s2.frame + 1]

\* function step(sim) with what it evaluated: the state it leaves, the pairs
\* evaluated, the neighbours visited, and whether a matrix lookup faulted.
\* On a fault the exception leaves step after the force pass so far: nothing
\* is integrated and frame is not incremented.
StepAll(s) ==
    The({ [sim |-> IF f.fault THEN f.sim ELSE Integrated(f.sim),
           log |-> f.log, visited |-> f.visited, fault |-> f.fault] :
          f \in {StepForces(s)} })

\* function step(sim): the state it leaves
step(s) == StepAll(s).sim

----------------------------------------------------------------------------
(* Bounds of the exploration *)

\* steps explored from a freshly built simulation
MaxFrame == 2

----------------------------------------------------------------------------
(* SpecCore: init(spec, seed) followed by steps, run twice.                *)
(* The first run is sim, the second simB; the stored item may change       *)
(* between the two runs (the editor's persist effect, another tab).        *)

\* the default configuration with some fields replaced
With(K, genMatrix, wrap, dt, drag, cellSize) ==
    [SPEC EXCEPT !.K = K, !.genMatrix = genMatrix, !.wrap = wrap,
                 !.dt = dt, !.drag = drag, !.cellSize = cellSize]

CoreConfigs ==
    { SPEC,
      With(5, FALSE, FALSE, SPEC.dt, SPEC.drag, SPEC.cellSize),
      With(2, FALSE, FALSE, SPEC.dt, SPEC.drag, SPEC.cellSize),
      With(2, FALSE, TRUE, SPEC.dt, SPEC.drag, SPEC.cellSize),
      With(2, FALSE, TRUE, 4 * Q, 0, SPEC.cellSize),
      With(2, FALSE, FALSE, 4 * Q, 0, SPEC.cellSize) }

\* seeds: SPEC.seed and values handleRandomizeSeed may draw.  Seed 1337 puts
\* the two particles 0.78 apart (beyond R), seed 2 puts them 0.41 apart (of
\* types 4 and 0 when K = 5) and seed 18 0.35 apart (of types 4 and 2).
Seeds == {SPEC_SEED, 2, 18}

\* stored items: none, what the persist effect writes on the first render
\* (K = 5 with the 2 x 2 default), a 5 x 5 and a 2 x 2 matrix saved earlier
LSItems ==
    { LSNone,
      saveMatrixToLS(SPEC.A, 5),
      saveMatrixToLS(zeroMatrix(5), 5),
      saveMatrixToLS(genRingPreset(2), 2) }

CoreInit ==
    /\ spec \in CoreConfigs
    /\ seed \in Seeds
    /\ ls \in LSItems
    /\ sim = initSim(spec, seed)
    /\ simB = sim
    /\ paused = FALSE
    /\ queue = <<>>
    /\ raf = NoLoop
    /\ pairLog = <<>>
    /\ visited = <<>>
    /\ loaded = Null
    /\ probe = NoProbe
    /\ events = 0
    /\ op = "initSim"

\* step(sim) on the first run
RunStep ==
    /\ sim.frame < MaxFrame
    /\ \E r \in {StepAll(sim)} :
         /\ ~r.fault
         /\ sim' = r.sim
         /\ pairLog' = r.log
         /\ visited' = r.visited
    /\ op' = "step"
    /\ UNCHANGED <<spec, seed, paused, queue, ls, simB, raf, loaded, probe, events>>

\* step(sim) on the first run, ended by the exception of a matrix lookup
RunStepFault ==
    /\ sim.frame < MaxFrame
    /\ op # "fault"
    /\ \E r \in {StepAll(sim)} :
         /\ r.fault
         /\ sim' = r.sim
         /\ pairLog' = r.log
         /\ visited' = r.visited
    /\ op' = "fault"
    /\ UNCHANGED <<spec, seed, paused, queue, ls, simB, raf, loaded, probe, events>>

\* step(simB) on the second run
RunStepB ==
    /\ simB.frame < MaxFrame
    /\ \E r \in {StepAll(simB)} :
         /\ ~r.fault
         /\ simB' = r.sim
    /\ op' = "stepB"
    /\ UNCHANGED <<spec, seed, paused, queue, ls, sim, raf, pairLog, visited,
                   loaded, probe, events>>

\* localStorage.setItem by somebody else between the two runs
StoreWrite ==
    /\ events = 0
    /\ simB.frame = 0
    /\ \E item \in LSItems \ {ls} : ls' = item
    /\ events' = 1
    /\ op' = "setItem"
    /\ UNCHANGED <<spec, seed, paused, queue, sim, simB, raf, pairLog, visited, loaded, probe>>

\* the second run's initSim(spec, seed), made after the item changed
RunInitB ==
    /\ op = "setItem"
    /\ simB' = initSim(spec, seed)
    /\ op' = "initSimB"
    /\ UNCHANGED <<spec, seed, paused, queue, ls, sim, raf, pairLog, visited,
                   loaded, probe, events>>

CoreNext == RunStep \/ RunStepFault \/ RunStepB \/ StoreWrite \/ RunInitB

SpecCore == CoreInit /\ [][CoreNext]_vars

\* the particle arrays of a simulation state
Particles(s) == <<s.x, s.y, s.vx, s.vy, s.type>>

\* all coordinates of s lie in the world [-1, 1] x [-1, 1]
InWorld(s) ==
    \A i \in DOMAIN s.x : s.x[i] \in (-Q)..Q /\ s.y[i] \in (-Q)..Q

----------------------------------------------------------------------------
(* Claims checked under SpecCore *)

\* C1: after every step, in both boundary modes and for every dt > 0 and
\* vMax >= 0, every particle's stored x and y lie in [-1, 1].
C1_InBoundsAfterStep == op = "step" => InWorld(sim)

\* C6: initSim called with a spec whose A is not K x K returns a state whose
\* rule matrix is K x K, whatever genMatrix and the stored item are.
C6_InitRegenerates ==
    (op = "initSim" /\ ~IsSquare(spec.A, spec.K)) => IsSquare(sim.A, sim.K)

\* C9 as stated: two runs of init and the same number of steps with the same
\* spec and seed end with the same particle arrays and the same rule matrix,
\* whatever the stored matrix is at the time of each init.
C9_SameSpecSeedSameResult ==
    sim.frame = simB.frame => (Particles(sim) = Particles(simB) /\ sim.A = simB.A)

\* C9 amended: with the same spec and seed the freshly initialised particle
\* arrays are the same whatever is stored, and after the same number of
\* steps the particle arrays are the same whenever the two runs resolved the
\* same rule matrix.
C9_SameMatrixSameResult ==
    (sim.frame = simB.frame /\ (sim.frame = 0 \/ sim.A = simB.A))
        => Particles(sim) = Particles(simB)

\* C9 witness: the stored item changed between the two inits, both runs
\* resolved the same matrix, both stepped as often, and a force was evaluated.
C9_TwoRunsStepped ==
    /\ op = "stepB" /\ events = 1
    /\ sim.frame >= 1 /\ sim.frame = simB.frame
    /\ sim.A = simB.A
    /\ pairLog # <<>>

\* Coordinate c1 and velocity component v1 are what the reflecting box
\* leaves of the position t before the boundary policy and the velocity
\* component v after the clamp: beyond +1 the mirror image 2 - t with the
\* velocity turned negative, beyond -1 the mirror image -2 - t with the
\* velocity turned positive, each of unchanged magnitude and inside [-1, 1].
Mirrored(t, v, c1, v1) ==
    /\ t > Q => (v1 < 0 /\ v1 = -Abs(v) /\ c1 = 2 * Q - t /\ c1 \in (-Q)..Q)
    /\ t < -Q => (v1 > 0 /\ v1 = Abs(v) /\ c1 = -(2 * Q) - t /\ c1 \in (-Q)..Q)

\* C14: with wrap off, a particle whose position before the boundary policy
\* lies beyond a wall ends the step with that velocity component turned
\* back, of unchanged magnitude, and the coordinate mirrored at the wall to
\* a value inside [-1, 1], on both axes and at both walls.
C14_ReflectMirrorsInside ==
    [][(op' = "step" /\ ~sim.spec.wrap) =>
         \A i \in 0..(StepN(sim) - 1) :
            \A t \in {Integrate(StepForces(sim).sim, i)} :
               /\ Mirrored(t.tx, t.cvx, sim'.x[i], sim'.vx[i])
               /\ Mirrored(t.ty, t.cvy, sim'.y[i], sim'.vy[i])]_vars

\* the squared speed of particle i, and the largest speed of the particles
\* step integrates, as step measures it
Speed2(s, i) == s.vx[i] * s.vx[i] + s.vy[i] * s.vy[i]
TopSpeed(s) ==
    IF StepN(s) = 0 THEN 0
    ELSE CHOOSE m \in {Sqrt(Speed2(s, i)) : i \in 0..(StepN(s) - 1)} :
            \A i \in 0..(StepN(s) - 1) : Sqrt(Speed2(s, i)) <= m

\* C15 as stated: after every step every particle has vx^2 + vy^2 <= vMax^2,
\* and lastMaxSpeed is the largest speed of the particles after the clamp.
C15_SpeedWithinVMax ==
    op = "step" =>
        /\ \A i \in 0..(StepN(sim) - 1) : Speed2(sim, i) <= sim.spec.vMax * sim.spec.vMax
        /\ sim.lastMaxSpeed = TopSpeed(sim)

\* C15 amended: after every step every particle's stored speed exceeds vMax
\* by less than one rounding step of the stored components, and lastMaxSpeed
\* is the largest speed of the particles after the clamp.
C15_SpeedWithinVMaxRounded ==
    op = "step" =>
        /\ \A i \in 0..(StepN(sim) - 1) :
              Speed2(sim, i) < (sim.spec.vMax + 1) * (sim.spec.vMax + 1)
        /\ sim.lastMaxSpeed = TopSpeed(sim)

\* C15 witness: a step has rescaled a velocity to vMax, stored it above
\* vMax by rounding, and reported it.
C15_ClampedAndReported ==
    /\ op = "step"
    /\ \E i \in 0..(StepN(sim) - 1) :
         /\ Speed2(sim, i) > sim.spec.vMax * sim.spec.vMax
         /\ Sqrt(Speed2(sim, i)) = sim.lastMaxSpeed

----------------------------------------------------------------------------
(* SpecGrid: init(spec, seed) followed by steps, over configurations that  *)
(* vary the grid (cellSize, wrap), the cutoffs and the rule matrix, with   *)
(* nothing stored.                                                         *)

\* const SPEC with K = 2 and its own 2 x 2 matrix taken as it is
Base == [SPEC EXCEPT !.K = 2, !.genMatrix = FALSE]

\* A[0][1] = 1, A[1][0] = 0
OneWay == [Base EXCEPT !.A = << <<(8 * Q) \div 10, Q>>, <<0, (8 * Q) \div 10>> >>]

GridConfigs ==
    { Base,
      [Base EXCEPT !.cellSize = (75 * Q) \div 100],
      [Base EXCEPT !.cellSize = (15 * Q) \div 100, !.wrap = TRUE],
      [Base EXCEPT !.cellSize = Q, !.wrap = TRUE],
      [Base EXCEPT !.cellSize = 3 * Q, !.wrap = TRUE],
      OneWay,
      [OneWay EXCEPT !.mutualOnly = TRUE],
      [OneWay EXCEPT !.R = (15 * Q) \div 10],
      [OneWay EXCEPT !.rMin = (405 * Q) \div 1000] }

\* Seeds handleRandomizeSeed may draw.  With K = 2 the two particles are
\* 0.405 apart (seed 2, exactly 405 units here), 1.43 (seed 10), 0.50 (seed
\* 14), 0.25 (seed 17) and 0.05 apart (seed 321), of different types each
\* time; seed 1882 puts them 0.70 apart in columns 0 and 2 of a 3 x 3 grid,
\* seed 5989 0.73 apart across the seam of a 14 x 14 torus grid.
GridSeeds == {2, 10, 14, 17, 321, 1882, 5989}

GridInit ==
    /\ spec \in GridConfigs
    /\ seed \in GridSeeds
    /\ ls = LSNone
    /\ sim = initSim(spec, seed)
    /\ simB = sim
    /\ paused = FALSE
    /\ queue = <<>>
    /\ raf = NoLoop
    /\ pairLog = <<>>
    /\ visited = <<>>
    /\ loaded = Null
    /\ probe = NoProbe
    /\ events = 0
    /\ op = "initSim"

SpecGrid == GridInit /\ [][RunStep]_vars

\* the displacement from particle i to particle j as the force pass takes it
\* (minimum image under wrap), and its squared length
Sep(s, i, j) ==
    IF s.spec.wrap THEN <<torusDelta(s.x[i], s.x[j]), torusDelta(s.y[i], s.y[j])>>
    ELSE <<s.x[j] - s.x[i], s.y[j] - s.y[i]>>
Sep2(s, i, j) == Sep(s, i, j)[1] * Sep(s, i, j)[1] + Sep(s, i, j)[2] * Sep(s, i, j)[2]

\* the separation r the force pass computes for the pair
Dist(s, i, j) == Sqrt(Sep2(s, i, j))

\* how often e occurs in the sequence q
Count(q, e) == Cardinality({k \in 1..Len(q) : q[k] = e})

RECURSIVE Chain(_, _, _)
\* the list that starts at j, followed for at most n links
Chain(nxt, j, n) ==
    IF j = -1 \/ n = 0 THEN <<>> ELSE <<j>> \o Chain(nxt, nxt[j], n - 1)

RECURSIVE Ends(_, _, _)
\* the list that starts at j reaches -1 within n links
Ends(nxt, j, n) ==
    IF j = -1 THEN TRUE ELSE IF n = 0 THEN FALSE ELSE Ends(nxt, nxt[j], n - 1)

\* The grid buffers g hold, for the positions of s, one list per cell: every
\* list ends in -1, and every particle is in the list of its own cell, once,
\* and in no other list.
WellFormedGrid(s, g) ==
    LET N == GridN(s)
        cells == {c \in DOMAIN g.cellHead : g.cellHead[c] # -1}
        list(c) == Chain(g.next, g.cellHead[c], N + 1)
    IN /\ \A c \in cells : Ends(g.next, g.cellHead[c], N)
       /\ \A i \in 0..(N - 1) :
            /\ {c \in cells : Count(list(c), i) > 0}
                 = {cellIndexOf(s.x[i], s.y[i], s.gridDim)}
            /\ \A c \in cells : Count(list(c), i) <= 1

----------------------------------------------------------------------------
(* Claims checked under SpecGrid *)

\* C2: within one step every unordered pair of distinct particles has its
\* force evaluated and accumulated at most once, and exactly once when its
\* separation r satisfies 0 < r <= R, in both boundary modes and for every
\* grid, also when the block of cells is wider than the grid.
C2_EachPairOnce ==
    [][op' = "step" =>
         \A i, j \in DOMAIN sim.x :
            i < j => /\ Count(pairLog', <<i, j>>) <= 1
                     /\ (Sep2(sim, i, j) > 0 /\ Sep2(sim, i, j) <= sim.spec.R * sim.spec.R)
                          => Count(pairLog', <<i, j>>) = 1]_vars

\* C3: for every particle i, every other particle j whose separation from i
\* (minimum image under wrap) is at most R is passed to the callback of
\* forEachNeighbor(i), for every cellSize > 0.
C3_QueryCoversCutoff ==
    [][op' = "step" =>
         \A i, j \in DOMAIN sim.x :
            (i # j /\ Sep2(sim, i, j) <= sim.spec.R * sim.spec.R)
               => Count(visited'[i + 1], j) > 0]_vars

\* C4: after rebuildGrid every particle index below N is reachable from
\* exactly one cellHead entry by following next, appears once in that list,
\* that cell is cellIndexOf(x[i], y[i]), and every list ends in -1.
C4_GridWellFormed ==
    [][op' = "step" => WellFormedGrid(sim, [cellHead |-> sim'.cellHead, next |-> sim'.next])]_vars

\* C4 witness: a step has rebuilt the grid with two particles linked in one
\* cell's list.
C4_SharedCell ==
    /\ op = "step"
    /\ \E i \in DOMAIN sim.next : sim.next[i] # -1

\* The step from s evaluated exactly the pair of p and q, p of type 0 and q
\* of type 1, under a matrix with A[0][1] = 1 and A[1][0] = 0.
OneWayPair(s, log, p, q) ==
    /\ p # q
    /\ log = << <<Min(p, q), Max(p, q)>> >>
    /\ s.type[p] = 0 /\ s.type[q] = 1
    /\ IsSquare(s.A, 2) /\ s.A[1][2] = Q /\ s.A[2][1] = 0

\* the force accumulated on p points toward q and is not zero
Toward(s, f, p, q) == f.fx[p] * Sep(s, p, q)[1] + f.fy[p] * Sep(s, p, q)[2] > 0

\* C10 as stated: with A[0][1] = 1, A[1][0] = 0 and rMin <= r <= R, one step
\* accumulates on the particle of type 0 a nonzero force directed toward the
\* particle of type 1, and on the particle of type 1 no force.
C10_NonReciprocalBell ==
    [][op' = "step" =>
         \A p, q \in DOMAIN sim.x :
            (/\ OneWayPair(sim, pairLog', p, q)
             /\ Dist(sim, p, q) >= sim.spec.rMin
             /\ Dist(sim, p, q) <= sim.spec.R)
               => /\ Toward(sim, sim', p, q)
                  /\ sim'.fx[q] = 0 /\ sim'.fy[q] = 0]_vars

\* C10 amended: the same for rMin < r <= R with r < 1 and mutualOnly off,
\* for a pair the force pass evaluates.
C10_NonReciprocalInsideBell ==
    [][op' = "step" =>
         \A p, q \in DOMAIN sim.x :
            (/\ OneWayPair(sim, pairLog', p, q)
             /\ ~sim.spec.mutualOnly
             /\ Dist(sim, p, q) > sim.spec.rMin
             /\ Dist(sim, p, q) <= sim.spec.R
             /\ Dist(sim, p, q) < Q)
               => /\ Toward(sim, sim', p, q)
                  /\ sim'.fx[q] = 0 /\ sim'.fy[q] = 0]_vars

\* C10 witness: a first step has evaluated a one-way pair inside the bell
\* with mutualOnly off; the particle of type 0 carries a force, the particle
\* of type 1 none.
C10_OneWayStepped ==
    /\ op = "step" /\ sim.frame = 1
    /\ ~sim.spec.mutualOnly
    /\ \E p, q \in DOMAIN sim.x :
         /\ OneWayPair(sim, pairLog, p, q)
         /\ (sim.fx[p] # 0 \/ sim.fy[p] # 0)
         /\ sim.fx[q] = 0 /\ sim.fy[q] = 0

\* the pairs of the log that particle p belongs to
PairsOf(log, p) == {k \in 1..Len(log) : p \in {log[k][1], log[k][2]}}

\* mutualOnly is on and the coefficients of the pair <<i, j>> are not both
\* positive
GateClosed(s, i, j) ==
    /\ s.spec.mutualOnly
    /\ Defined(s.A, s.type[i], s.type[j])
    /\ ~(s.A[s.type[i] + 1][s.type[j] + 1] > 0 /\ s.A[s.type[j] + 1][s.type[i] + 1] > 0)

\* C11 as stated: with mutualOnly on, a pair within the cutoff whose
\* coefficients are not both positive adds nothing to either accumulator, at
\* every separation 0 < r <= R, also below rMin: a particle all of whose
\* evaluated pairs are such pairs ends the force pass with zero force.
C11_GateZeroesPair ==
    [][op' = "step" =>
         \A p \in DOMAIN sim.x :
            (/\ PairsOf(pairLog', p) # {}
             /\ \A k \in PairsOf(pairLog', p) :
                  GateClosed(sim, pairLog'[k][1], pairLog'[k][2]))
               => sim'.fx[p] = 0 /\ sim'.fy[p] = 0]_vars

\* C11 amended: the same for separations rMin <= r <= R.
C11_GateZeroesBell ==
    [][op' = "step" =>
         \A p \in DOMAIN sim.x :
            (/\ PairsOf(pairLog', p) # {}
             /\ \A k \in PairsOf(pairLog', p) :
                  /\ GateClosed(sim, pairLog'[k][1], pairLog'[k][2])
                  /\ Dist(sim, pairLog'[k][1], pairLog'[k][2]) >= sim.spec.rMin)
               => sim'.fx[p] = 0 /\ sim'.fy[p] = 0]_vars

\* C11 witness: a first step under mutualOnly has evaluated a pair with one
\* positive coefficient and left both particles without force.
C11_GatedPairStepped ==
    /\ op = "step" /\ sim.frame = 1
    /\ \E k \in 1..Len(pairLog) :
         /\ GateClosed(sim, pairLog[k][1], pairLog[k][2])
         /\ sim.A[sim.type[pairLog[k][1]] + 1][sim.type[pairLog[k][2]] + 1]
              + sim.A[sim.type[pairLog[k][2]] + 1][sim.type[pairLog[k][1]] + 1] > 0
         /\ \A p \in {pairLog[k][1], pairLog[k][2]} : sim.fx[p] = 0 /\ sim.fy[p] = 0

----------------------------------------------------------------------------
(* The order of the phases of step, checked under SpecCore *)

RECURSIVE ForcesOf(_, _, _)
\* the callback of step applied to the pairs of log in turn, on the
\* positions, velocities, types and matrix held by s
ForcesOf(s, log, acc) ==
    IF log = <<>> THEN acc
    ELSE The({ ForcesOf(s, Tail(log), a1) :
               a1 \in {PairForce(s, Head(log)[1], Head(log)[2], acc)} })

\* the forces the pairs of log exert at the positions and velocities of s
ForcesAt(s, log) ==
    ForcesOf(s, log, [fx |-> [i \in DOMAIN s.fx |-> 0], fy |-> [i \in DOMAIN s.fy |-> 0],
                      log |-> <<>>, visited |-> <<>>, fault |-> FALSE])

\* C16: a step leaves the grid built from the positions held at its start,
\* the accumulators equal to the forces of the evaluated pairs at the
\* positions and velocities held at its start (zero elsewhere), every
\* particle integrated once from its start position and velocity with its
\* complete force, and the frame counter incremented by exactly 1.
C16_PhasesInOrder ==
    [][op' = "step" =>
         \A ref \in {ForcesAt(sim, pairLog')} :
            /\ WellFormedGrid(sim, [cellHead |-> sim'.cellHead, next |-> sim'.next])
            /\ \A i \in 0..(StepN(sim) - 1) :
                 /\ sim'.fx[i] = ref.fx[i] /\ sim'.fy[i] = ref.fy[i]
                 /\ \A t \in {Integrate([sim EXCEPT !.fx = ref.fx, !.fy = ref.fy], i)} :
                       <<sim'.x[i], sim'.y[i], sim'.vx[i], sim'.vy[i]>>
                          = <<t.x, t.y, t.vx, t.vy>>
            /\ sim'.frame = sim.frame + 1]_vars

\* C16 witness: a second step has evaluated a pair and accumulated a force,
\* on particles the first step had moved.
C16_SecondStepWithForce ==
    /\ op = "step" /\ sim.frame = 2
    /\ pairLog # <<>>
    /\ \E i \in DOMAIN sim.fx : sim.fx[i] # 0 /\ sim.vx[i] # 0

----------------------------------------------------------------------------
(* SpecLS: the stored item holds anything another writer may have left     *)
(* there; the component saves its matrix and loads for its type count.     *)

\* sides of stored matrices and type counts explored (incK keeps K >= 2)
MaxSide == 3

\* a row that is not an array, and rows of 2..MaxSide numbers
NotArrRow == [isArr |-> FALSE, cells |-> <<>>]
JsonRows == {NotArrRow} \cup {JsonRow([j \in 1..n |-> 0]) : n \in 2..MaxSide}

\* the values a record's A may hold: not an array, or 2..MaxSide rows
JsonAs ==
    {NotArr} \cup
    UNION { {[isArr |-> TRUE, rows |-> rs] : rs \in [1..n -> JsonRows]} : n \in 2..MaxSide }

\* the stored items: none, unparsable, falsy, or a record; K = -1 stands for
\* a record without a numeric K
LSDomain ==
    {LSNone, LSGarbage, LSNull} \cup
    {[tag |-> "rec", K |-> k, A |-> a] : k \in {-1} \cup (2..MaxSide), a \in JsonAs}

LSInit ==
    /\ ls \in LSDomain
    /\ \E k \in 2..MaxSide : spec = [SPEC EXCEPT !.K = k]
    /\ seed = SPEC_SEED
    /\ sim = initSim(spec, seed)
    /\ simB = sim
    /\ paused = FALSE
    /\ queue = <<>>
    /\ raf = NoLoop
    /\ pairLog = <<>>
    /\ visited = <<>>
    /\ loaded = Null
    /\ probe = NoProbe
    /\ events = 0
    /\ op = "initSim"

\* loadMatrixFromLS(spec.K)
LoadMatrix ==
    /\ op # "load"
    /\ loaded' = loadMatrixFromLS(spec.K)
    /\ op' = "load"
    /\ UNCHANGED <<spec, seed, paused, queue, ls, sim, simB, raf, pairLog, visited,
                   probe, events>>

\* saveMatrixToLS(spec.A, spec.K), or of a matrix of side spec.K
SaveMatrix ==
    /\ op = "initSim"
    /\ \E A \in {spec.A, genRingPreset(spec.K)} : ls' = saveMatrixToLS(A, spec.K)
    /\ op' = "save"
    /\ UNCHANGED <<spec, seed, paused, queue, sim, simB, raf, pairLog, visited,
                   loaded, probe, events>>

LSNext == LoadMatrix \/ SaveMatrix

SpecLS == LSInit /\ [][LSNext]_vars

\* the stored item is a record {K, A} with K = k and A an array of exactly k
\* rows, each an array of length k
RecordMatches(item, k) ==
    /\ item.tag = "rec"
    /\ item.K = k
    /\ item.A.isArr
    /\ Len(item.A.rows) = k
    /\ \A i \in 1..Len(item.A.rows) :
         item.A.rows[i].isArr /\ Len(item.A.rows[i].cells) = k

\* C8: loading for the live type count K' yields null whenever the record's
\* K differs from K' or A is not an array of exactly K' rows of length K', a
\* matrix (the record's) only for a record that matches in all three
\* respects, and null for a missing or unparsable item.
C8_LoadRejectsMismatch ==
    op = "load" =>
        /\ loaded.isNull <=> ~RecordMatches(ls, spec.K)
        /\ ~loaded.isNull =>
              /\ IsSquare(loaded.A, spec.K)
              /\ \A i \in 1..spec.K : loaded.A[i] = ls.A.rows[i].cells

\* C8 witness: a load was refused although the record's K and its number of
\* rows both equal the live type count (a row has another length).
C8_RefusedForRowLength ==
    /\ op = "load" /\ loaded.isNull
    /\ ls.tag = "rec" /\ ls.K = spec.K /\ ls.A.isArr /\ Len(ls.A.rows) = spec.K
    /\ \A i \in 1..Len(ls.A.rows) : ls.A.rows[i].isArr

----------------------------------------------------------------------------
(* SpecAccel: accelMag evaluated apart from step, twice with one rMin, on  *)
(* a grid fine enough for the guard 1e-6 to be two units.                  *)

\* units per 1.0 of the fine grid
QF == 2000000

\* coefficients in [-1, 1]
AccelCoeffs == {-QF, -(QF \div 2), 0, QF \div 2, QF}

\* thresholds in (0, 1): SPEC.rMin, 0.5, 1 - 1e-6 and 1 - 5e-7
AccelRMins == {(12 * QF) \div 100, QF \div 2, QF - EpsAt(QF), QF - 1}

\* separations for a threshold rMin: the smallest, inside the core, next to
\* the threshold on both sides, the threshold, the middle of the bell, next
\* to 1, 1, and beyond 1 (for thresholds up to 0.5)
AccelSeps(rMin) ==
    {1, rMin \div 2, rMin - 1, rMin, rMin + 1, (QF + rMin) \div 2, QF - 1, QF}
        \cup (IF rMin <= QF \div 2 THEN {(3 * QF) \div 2} ELSE {})

AccelInit ==
    /\ \E rMin \in AccelRMins :
         \E a, b \in AccelCoeffs :
            \E r, s \in AccelSeps(rMin) :
               probe = [kind |-> "args", rMin |-> rMin, a |-> a, r |-> r,
                        b |-> b, s |-> s, f |-> 0, g |-> 0]
    /\ spec = SPEC
    /\ seed = SPEC_SEED
    /\ ls = LSNone
    /\ sim = initSim(spec, seed)
    /\ simB = sim
    /\ paused = FALSE
    /\ queue = <<>>
    /\ raf = NoLoop
    /\ pairLog = <<>>
    /\ visited = <<>>
    /\ loaded = Null
    /\ events = 0
    /\ op = "initSim"

\* f = accelMag(a, r, rMin) and g = accelMag(b, s, rMin)
EvalAccel ==
    /\ probe.kind = "args"
    /\ probe' = [probe EXCEPT !.kind = "done",
                              !.f = accelMagAt(QF, probe.a, probe.r, probe.rMin),
                              !.g = accelMagAt(QF, probe.b, probe.s, probe.rMin)]
    /\ op' = "accelMag"
    /\ UNCHANGED <<spec, seed, paused, queue, ls, sim, simB, raf, pairLog, visited,
                   loaded, events>>

SpecAccel == AccelInit /\ [][EvalAccel]_vars

----------------------------------------------------------------------------
(* Claims checked under SpecAccel *)

\* C12 as stated: for every a in [-1, 1], every rMin in (0, 1) and every r in
\* (0, rMin), accelMag(a, r, rMin) is strictly negative and the same for every
\* a; and accelMag(a, rMin, rMin) is 0 for every a.
C12_CoreRepelsAndMeetsZero ==
    probe.kind = "done" =>
        /\ probe.r < probe.rMin => probe.f < 0
        /\ (probe.r < probe.rMin /\ probe.s = probe.r) => probe.g = probe.f
        /\ probe.r = probe.rMin => probe.f = 0

\* C12 amended: the same, the value 0 at r = rMin for rMin <= 1 - 1e-6; the
\* hard-core branch tends to 0 at the threshold (one grid step below rMin it
\* is within one step's slope 1 / rMin of 0).
C12_CoreRepelsAndMeetsZeroBelowGuard ==
    probe.kind = "done" =>
        /\ probe.r < probe.rMin => probe.f < 0
        /\ (probe.r < probe.rMin /\ probe.s = probe.r) => probe.g = probe.f
        /\ probe.r = probe.rMin - 1 => -probe.f <= Ceil(QF, probe.rMin)
        /\ (probe.r = probe.rMin /\ probe.rMin <= QF - EpsAt(QF)) => probe.f = 0

\* C12 witness: the hard core was evaluated for a threshold below the guard,
\* with two different coefficients at one separation, and gave the same
\* negative value.
C12_CoreEvaluatedTwice ==
    /\ probe.kind = "done"
    /\ probe.rMin <= QF - EpsAt(QF)
    /\ probe.r < probe.rMin /\ probe.s = probe.r /\ probe.a # probe.b
    /\ probe.f < 0 /\ probe.g = probe.f

\* C13 as stated: for a > 0 the bell term attains its maximum over r in
\* [rMin, 1] at r = rMin and is zero at r = 1; for a = 0 it is zero for every
\* r >= rMin.
C13_BellPeaksAtThreshold ==
    probe.kind = "done" =>
        /\ (/\ probe.a > 0 /\ probe.b = probe.a
            /\ probe.r = probe.rMin
            /\ probe.s >= probe.rMin /\ probe.s <= QF) => probe.g <= probe.f
        /\ (probe.a > 0 /\ probe.r = QF) => probe.f = 0
        /\ (probe.a = 0 /\ probe.r >= probe.rMin) => probe.f = 0

\* C13 amended: for a > 0 the bell term attains its maximum over r in
\* [rMin, 1], the value a, at r = (1 + rMin) / 2; it is zero at r = 1 for
\* rMin <= 1 - 1e-6; for a = 0 it is zero for every r >= rMin.
C13_BellPeaksMidway ==
    probe.kind = "done" =>
        /\ (/\ probe.a > 0 /\ probe.b = probe.a
            /\ 2 * probe.r = QF + probe.rMin
            /\ probe.s >= probe.rMin /\ probe.s <= QF)
              => (probe.f = probe.a /\ probe.g <= probe.f)
        /\ (probe.a > 0 /\ probe.r = QF /\ probe.rMin <= QF - EpsAt(QF)) => probe.f = 0
        /\ (probe.a = 0 /\ probe.r >= probe.rMin) => probe.f = 0

\* C13 witness: with one positive coefficient the bell was evaluated at its
\* middle, where it gave a, and at r = rMin, where it gave 0.
C13_MiddleAndThreshold ==
    /\ probe.kind = "done"
    /\ probe.a > 0 /\ probe.b = probe.a
    /\ 2 * probe.r = QF + probe.rMin /\ probe.s = probe.rMin
    /\ probe.f = probe.a /\ probe.g = 0

----------------------------------------------------------------------------
(* Spec: the mounted component.  A click runs its handler and, when the    *)
(* handler set state, the render and the effects that follow it at once.   *)
(* A state update made inside an effect is rendered later, by Render;      *)
(* clicks and animation frames may come first.  queue.ups holds the        *)
(* updates of spec not yet rendered by Render (a click's own update is     *)
(* applied at once and kept behind an earlier pending one, to be applied   *)
(* again on top of it), queue.base the spec they are applied to.           *)

\* user events explored
MaxEvents == 2

\* largest type count explored (incK allows TYPE_COLORS.length)
MaxTypes == 6

\* values Math.floor(Math.random() * 1e9) and Date.now() >>> 0 may take
NewSeeds == {2, 18}
ClockSeeds == {7}

\* function cycleValue(v, dir)
cycleValue(v, dir) ==
    LET idx == IF v = -Q THEN 0 ELSE IF v = 0 THEN 1 ELSE IF v = Q THEN 2 ELSE -1
        ni == (idx + dir + 3) % 3
    IN IF idx < 0 THEN 0
       ELSE IF ni = 0 THEN -Q ELSE IF ni = 1 THEN 0 ELSE Q

\* MatrixToolbar.updateCell(i, j, v): the matrix handed to onChange
updateCell(A, i, j, v) ==
    [ri \in 1..Len(A) |->
        IF ri = i + 1
        THEN [cj \in 1..Len(A[ri]) |-> IF cj = j + 1 THEN clamp(v, -Q, Q) ELSE A[ri][cj]]
        ELSE A[ri]]

\* the updater functions and values handed to setSpec
SetA(A) == [kind |-> "A", A |-> A, K |-> 0, N |-> 0, value |-> SPEC]
SetK(K) == [kind |-> "K", A |-> <<>>, K |-> K, N |-> 0, value |-> SPEC]
SetN(N) == [kind |-> "N", A |-> <<>>, K |-> 0, N |-> N, value |-> SPEC]
SetValue(v) == [kind |-> "value", A |-> <<>>, K |-> 0, N |-> 0, value |-> v]

\* the state an update produces from state s
Apply(u, s) ==
    IF u.kind = "A" THEN [s EXCEPT !.A = u.A, !.genMatrix = FALSE]
    ELSE IF u.kind = "K" THEN [s EXCEPT !.K = u.K, !.genMatrix = TRUE]
    ELSE IF u.kind = "N" THEN [s EXCEPT !.N = u.N]
    ELSE u.value

RECURSIVE ApplyAll(_, _)
\* the updates ups applied in order from state s
ApplyAll(ups, s) ==
    IF ups = <<>> THEN s ELSE ApplyAll(Tail(ups), Apply(Head(ups), s))

\* an update made while state ns is committed joins the pending ones
Enqueue(q, ns, u) ==
    IF q.ups = <<>> THEN [base |-> ns, ups |-> <<u>>]
    ELSE [q EXCEPT !.ups = Append(@, u)]

\* a click's update u, applied at once to give ns: kept for the later
\* render only behind updates that are still pending
Rebase(q, ns, u) ==
    IF q.ups = <<>> THEN [base |-> ns, ups |-> <<>>]
    ELSE [q EXCEPT !.ups = Append(@, u)]

\* the dependencies of the init effect differ between two renders
InitDepsChanged(ns, nsd) ==
    \/ nsd # seed
    \/ <<ns.N, ns.K, ns.cellSize, ns.wrap, ns.R, ns.rMin, ns.dt, ns.drag, ns.vMax>>
         # <<spec.N, spec.K, spec.cellSize, spec.wrap, spec.R, spec.rMin, spec.dt,
              spec.drag, spec.vMax>>

\* the resolve-matrix effect's update, for a render with spec ns
ResolveUpdate(ns) ==
    LET fromLS == loadMatrixFromLS(ns.K)
    IN SetA(IF fromLS.isNull THEN genRingPreset(ns.K) ELSE fromLS.A)

\* the sequence q without its k-th element
RemoveAt(q, k) == SubSeq(q, 1, k - 1) \o SubSeq(q, k + 1, Len(q))

\* the effect of useAnimationFrame as it would be if its cleanup did not
\* cancel the request
useAnimationFrameNoCancel(r, np) ==
    [r EXCEPT !.pending = IF np THEN @ ELSE Append(@, [paused |-> np]),
              !.ref = IF np THEN 0 ELSE Len(r.pending) + 1]

\* The effect of useAnimationFrame re-run for a render with paused = np:
\* the cleanup of the previous run cancels the request ref.current names
\* and clears it, then a frame is requested for a loop that closes over np,
\* unless np.  pending lists the requests not yet run with the value of
\* paused their loop closes over; ref is the position in pending of the
\* request ref.current names, 0 when ref.current is null or names a
\* request that has run (cancelling that one does nothing).
useAnimationFrame(r, np) ==
    LET kept == IF r.ref # 0 THEN RemoveAt(r.pending, r.ref) ELSE r.pending
    IN [r EXCEPT !.pending = IF np THEN kept ELSE Append(kept, [paused |-> np]),
                 !.ref = IF np THEN 0 ELSE Len(kept) + 1]

\* A render of App with state (ns, nsd, np) and the effects after it, in the
\* order of their declaration: resolve matrix (deps K, genMatrix), init
\* (deps seed, N, K, ...), sync sim.spec, the animation-frame hook (its
\* callback is new on every render), persist (deps A, K).  s0, q0 and r0 are
\* the simulation, the pending updates and the frame requests before the
\* effects.
Commit(ns, nsd, np, s0, q0, r0) ==
    LET resolveRuns == ns.K # spec.K \/ ns.genMatrix # spec.genMatrix
        need == ns.genMatrix \/ ~IsSquare(ns.A, ns.K)
        s1 == IF InitDepsChanged(ns, nsd) THEN initSim(ns, nsd) ELSE s0
    IN /\ spec' = ns
       /\ seed' = nsd
       /\ paused' = np
       /\ queue' = IF resolveRuns /\ need THEN Enqueue(q0, ns, ResolveUpdate(ns)) ELSE q0
       /\ sim' = [s1 EXCEPT !.spec = ns]
       /\ raf' = useAnimationFrame(r0, np)
       /\ ls' = saveMatrixToLS(ns.A, ns.K)

\* The state after mounting: the first render with SPEC and its effects.
\* The item stored before (none, or a 5 x 5 matrix saved by an earlier
\* session) is read by the resolve effect and by initSim, then overwritten.
Init ==
    /\ spec = SPEC
    /\ seed = SPEC_SEED
    /\ paused = FALSE
    /\ \E item \in {LSNone, saveMatrixToLS(zeroMatrix(5), 5)} :
         /\ queue = [base |-> SPEC,
                     ups |-> << SetA(IF loadMatrixFrom(item, 5).isNull
                                     THEN genRingPreset(5)
                                     ELSE loadMatrixFrom(item, 5).A) >>]
         /\ sim = initSimFrom(item, SPEC, SPEC_SEED)
    /\ ls = saveMatrixToLS(SPEC.A, SPEC.K)
    /\ simB = sim
    /\ raf = useAnimationFrame(NoLoop, FALSE)
    /\ pairLog = <<>>
    /\ visited = <<>>
    /\ loaded = Null
    /\ probe = NoProbe
    /\ events = 0
    /\ op = "mount"

\* what every click leaves alone
Click(name) ==
    /\ events < MaxEvents
    /\ events' = events + 1
    /\ op' = name
    /\ UNCHANGED <<simB, pairLog, visited, loaded, probe>>

\* a click whose handler calls setSpec with update u, having left the
\* simulation as s0
ClickSetSpec(name, u, s0) ==
    /\ Click(name)
    /\ Commit(Apply(u, spec), seed, paused, s0, Rebase(queue, Apply(u, spec), u), raf)

\* the render of the updates made outside event handlers: the setSpec of
\* the resolve effect and the setFps of the FPS meter
Render ==
    /\ queue.ups # <<>> \/ raf.fps
    /\ \E ns \in {IF queue.ups = <<>> THEN spec ELSE ApplyAll(queue.ups, queue.base)} :
         Commit(ns, seed, paused, sim, [base |-> ns, ups |-> <<>>],
                [raf EXCEPT !.fps = FALSE])
    /\ op' = "render"
    /\ UNCHANGED <<simB, pairLog, visited, loaded, probe, events>>

\* incK(delta)
IncK ==
    \E delta \in {-1, 1} :
       /\ spec.K + delta <= MaxTypes
       /\ ClickSetSpec("incK", SetK(clamp(spec.K + delta, 2, 16)), sim)

\* incN(delta): the buttons' -100 and +100 on the scale of NParticles
IncN ==
    \E delta \in {-1, 1} :
       /\ spec.N + delta <= NParticles + 1
       /\ ClickSetSpec("incN", SetN(clamp(spec.N + delta, 0, 50000)), sim)

\* applyMatrix without the test simRef.current.K === A.length
applyMatrixToSimUnchecked(s, A) == [s EXCEPT !.A = A]

\* the simulation after applyMatrix(A)
applyMatrixToSim(s, A) == IF s.K = Len(A) THEN [s EXCEPT !.A = A] ELSE s

\* function applyMatrix(A), with the render it causes
applyMatrix(A) == ClickSetSpec("applyMatrix", SetA(A), applyMatrixToSim(sim, A))

\* a left click on cell (0, 1) of the toolbar, which shows spec.A
CellClick == applyMatrix(updateCell(spec.A, 0, 1, cycleValue(At(spec.A, 0, 1), 1)))

\* applyRingPreset
RingPreset == applyMatrix(genRingPreset(spec.K))

\* the toolbar's Randomize, K = spec.A.length
Randomize == \E t \in ClockSeeds : applyMatrix(genRandomMatrix(Len(spec.A), t))

\* the toolbar's Clear, K = spec.A.length
Clear == applyMatrix(zeroMatrix(Len(spec.A)))

\* handleReset: no state is set, nothing is rendered
Reset ==
    /\ Click("reset")
    /\ sim' = initSim(spec, seed)
    /\ UNCHANGED <<spec, seed, paused, queue, ls, raf>>

\* handleRandomizeSeed
NewSeed ==
    \E v \in NewSeeds \ {seed} :
       /\ Click("newSeed")
       /\ Commit(spec, v, paused, sim, queue, raf)

\* the wrap checkbox: setSpec({ ...spec, wrap }) with the rendered spec
ToggleWrap == ClickSetSpec("wrap", SetValue([spec EXCEPT !.wrap = ~@]), sim)

\* togglePause
TogglePause ==
    /\ Click("pause")
    /\ Commit(spec, seed, ~paused, sim, queue, raf)

RECURSIVE RunLoops(_, _)
\* The callbacks loop(t) of the requests reqs run in turn: a loop whose
\* closure has paused does nothing; otherwise it runs the callback, which
\* runs step(simRef.current), and requests the next frame, unless step
\* threw.  st holds the simulation, what the last step evaluated, the
\* requests made and the number of steps that threw.
RunLoops(reqs, st) ==
    IF reqs = <<>> THEN st
    ELSE IF Head(reqs).paused THEN RunLoops(Tail(reqs), st)
    ELSE The({ RunLoops(Tail(reqs),
                        [sim |-> r.sim, log |-> r.log, visited |-> r.visited,
                         faults |-> st.faults + (IF r.fault THEN 1 ELSE 0),
                         pending |-> IF r.fault THEN st.pending
                                     ELSE Append(st.pending, Head(reqs))]) :
               r \in {StepAll(st.sim)} })

\* what an animation frame leaves: every request pending at its start has
\* run; ref.current names the request made last, if any
AnimationFrame ==
    RunLoops(raf.pending, [sim |-> sim, log |-> pairLog, visited |-> visited,
                           faults |-> 0, pending |-> <<>>])

\* an animation frame in which no step throws
Frame ==
    /\ raf.pending # <<>>
    /\ sim.frame < MaxFrame
    /\ \E st \in {AnimationFrame} :
         /\ st.faults = 0
         /\ sim' = st.sim
         /\ pairLog' = st.log
         /\ visited' = st.visited
         /\ raf' = [raf EXCEPT !.pending = st.pending, !.ref = Len(st.pending)]
    /\ op' = "step"
    /\ UNCHANGED <<spec, seed, paused, queue, ls, simB, loaded, probe, events>>

\* an animation frame in which a step throws: its loop requests no frame
FrameFault ==
    /\ raf.pending # <<>>
    /\ sim.frame < MaxFrame
    /\ \E st \in {AnimationFrame} :
         /\ st.faults > 0
         /\ sim' = st.sim
         /\ pairLog' = st.log
         /\ visited' = st.visited
         /\ raf' = [raf EXCEPT !.pending = st.pending, !.ref = Len(st.pending)]
    /\ op' = "fault"
    /\ UNCHANGED <<spec, seed, paused, queue, ls, simB, loaded, probe, events>>

\* the FPS meter's tick, 500 ms after the last report: setFps
FpsTick ==
    /\ ~raf.fps
    /\ raf' = [raf EXCEPT !.fps = TRUE]
    /\ op' = "tick"
    /\ UNCHANGED <<spec, seed, paused, queue, ls, sim, simB, pairLog, visited,
                   loaded, probe, events>>

Next ==
    \/ Render
    \/ IncN
    \/ IncK
    \/ CellClick
    \/ RingPreset
    \/ Randomize
    \/ Clear
    \/ Reset
    \/ NewSeed
    \/ ToggleWrap
    \/ TogglePause
    \/ Frame
    \/ FrameFault
    \/ FpsTick

Spec == Init /\ [][Next]_vars

\* the buffers of a simulation other than its matrix and its spec
Buffers(s) == <<s.x, s.y, s.vx, s.vy, s.type, s.fx, s.fy, s.cellHead, s.next, s.frame>>

\* the buffers of s are those initSim allocates for s.spec: N entries per
\* particle buffer, gridDim * gridDim cell heads, every type below K
BuffersFit(s) ==
    /\ \A b \in {s.x, s.y, s.vx, s.vy, s.type, s.fx, s.fy, s.next} :
          DOMAIN b = 0..(s.spec.N - 1)
    /\ s.gridDim = GridDimOf(s.spec.cellSize)
    /\ DOMAIN s.cellHead = 0..(s.gridDim * s.gridDim - 1)
    /\ \A i \in DOMAIN s.type : s.type[i] \in 0..(s.K - 1)

----------------------------------------------------------------------------
(* Claims checked under Spec *)

\* C5: for every sequence of editor and control events interleaved with
\* steps, whenever step runs, sim.A is square with side sim.K.
C5_MatrixSquareAtStep ==
    [][op' \in {"step", "fault"} => IsSquare(sim.A, sim.K)]_vars

\* C7: applyMatrix(A) replaces the simulation's matrix by A when A is K x K
\* for the simulation's K and only then, leaves it unchanged otherwise, and
\* never changes the particle buffers, the grid buffers or the frame counter.
C7_ApplyMatrixFrame ==
    [][op' = "applyMatrix" =>
         /\ Buffers(sim') = Buffers(sim)
         /\ sim'.K = sim.K
         /\ IsSquare(spec'.A, sim.K) => sim'.A = spec'.A
         /\ ~IsSquare(spec'.A, sim.K) => sim'.A = sim.A]_vars

\* C7 witness: applyMatrix was called with a matrix of another side than
\* the simulation's K, on a simulation that has stepped.
C7_AppliedOtherSide ==
    /\ op = "applyMatrix"
    /\ Len(spec.A) # sim.K
    /\ sim.frame > 0

\* C17: the per-frame driver runs at most one step per animation frame and
\* keeps at most one frame request pending at any time; while paused no step
\* runs and no frame counter changes (a reset made while paused puts a new
\* simulation, with frame 0, in place of the old one); after a resume a
\* request for a stepping loop is pending, and so it is after every frame
\* whose step returned.
C17_OneStepPerFrame ==
    /\ [](Len(raf.pending) <= 1)
    /\ [][/\ op' \in {"step", "fault"} => sim'.frame <= sim.frame + 1
          /\ paused => /\ op' \notin {"step", "fault"}
                       /\ sim'.frame \in {sim.frame, 0}
          /\ (paused /\ ~paused') => raf'.pending = <<[paused |-> FALSE]>>
          /\ op' = "step" => raf'.pending = <<[paused |-> FALSE]>>]_vars

\* C17 witness: the driver was paused and resumed after it had stepped, and
\* the request of the resume is pending.
C17_ResumedAfterSteps ==
    /\ op = "pause"
    /\ ~paused
    /\ sim.frame > 0
    /\ raf.pending # <<>>

\* C18: for every interleaving of spec edits, resets, seed changes and
\* animation frames, whenever step runs, all particle buffers have length
\* sim.spec.N, gridDim is max(1, ceil(2 / sim.spec.cellSize)) and every type
\* is below sim.K, and the step looks up no entry outside the matrix (it
\* does not end in the exception of a missing row or entry).
C18_StepInsideBuffers ==
    [][op' \in {"step", "fault"} => (BuffersFit(sim) /\ op' # "fault")]_vars
====
